---- MODULE Spec2Model ----
(***************************************************************************)
(* Model of Clusterring/check_video.py: extract_frames (the frame sampler), *)
(* classify_frame_with_api (one classifier call with its temporary image),  *)
(* analyze_video and the __main__ block (the two callers that aggregate).   *)
(*                                                                          *)
(* A frame is identified by its 0-based position in the stream.  fps and    *)
(* frame_rate are floats in the code; here they are integer multiples of    *)
(* 1/FpsDen frames per second, so that a source rate below the sampling     *)
(* rate (0 < fps < frame_rate) exists.  A score is an integer multiple of   *)
(* 1/ScoreScale in [0, 1]; an aggregate is a reduced fraction.              *)
(***************************************************************************)
EXTENDS Integers, Sequences, FiniteSets, TLC

MaxN == 3          \* longest stream, in decodable frames (besides ScenarioStream)
MaxFps == 5        \* largest reported source rate, in units of 1/FpsDen
MaxRate == 3       \* largest frame_rate of a direct extract_frames call, same units
FpsDen == 2        \* resolution of the rates: one unit is 1/FpsDen frames per second
ScoreScale == 2    \* resolution of the scores: one unit is 1/ScoreScale

DefaultFrameRate == 1   \* frame_rate=1 of both callers

VARIABLES
    caller,            \* which entry point runs: "extract_frames", "analyze_video", "main"
    openable,          \* whether cv2.VideoCapture can open the file
    json_error_caught, \* whether response.json()'s error is a RequestException (requests >= 2.27)
    N,                 \* number of decodable frames of the stream
    fps,               \* cap.get(CAP_PROP_FPS), in units of 1/FpsDen
    frame_rate,        \* the frame_rate argument, in units of 1/FpsDen
    pc,                \* position in the code
    interval,          \* extract_frames: interval
    frame_count,       \* extract_frames: frame_count
    frames,            \* the sampled frames (source positions), in order
    idx,               \* number of frames the classification loop has finished
    nsfw_scores,       \* the collected scores (nsfw_scores / scores)
    temp_image_path,   \* classify_frame_with_api: the local, "unbound" until assigned
    pending,           \* classify_frame_with_api: what the try block ended with
    files,             \* the temporary files on disk
    calls,             \* log: the frame indices classify_frame_with_api was called with
    callLog,           \* log: how each call went: "ok", "api_failure", "local_failure"
    ended,             \* log: number of classify_frame_with_api calls that have ended
    sampling,          \* how extract_frames ended: "returned" or the exception, "running" before
    outcome            \* how the run ended, "running" before

vars == <<caller, openable, json_error_caught, N, fps, frame_rate, pc, interval,
          frame_count, frames, idx, nsfw_scores, temp_image_path, pending, files,
          calls, callLog, ended, sampling, outcome>>

----------------------------------------------------------------------------
(* Inputs *)

\* The end-to-end scenario of the specification: 90 frames at 30 fps.
ScenarioStream == [N |-> 90, fps |-> 30 * FpsDen]

Streams == [N : 0..MaxN, fps : -1..MaxFps] \cup {ScenarioStream}

Callers == {"extract_frames", "analyze_video", "main"}

\* What one request to the moderation API can end with.
Scores == 0..ScoreScale
ApiFailures == {"network_error", "http_error", "bad_json", "no_nudity", "nudity_no_raw"}

----------------------------------------------------------------------------
(* Pure helpers *)

RECURSIVE GCD(_, _)
GCD(a, b) == IF b = 0 THEN a ELSE GCD(b, a % b)

RECURSIVE Sum(_)
Sum(s) == IF s = <<>> THEN 0 ELSE Head(s) + Sum(Tail(s))

\* a fraction num/den (den > 0, num >= 0) in lowest terms
Rat(num, den) == LET g == GCD(num, den) IN [num |-> num \div g, den |-> den \div g]

\* mutant of Mean: the sum starts at the second score
MeanSkipFirst(s) == Rat(Sum(Tail(s)), Len(s) * ScoreScale)

\* np.mean(scores) of a non-empty list of scores given in units of 1/ScoreScale
Mean(s) == Rat(Sum(s), Len(s) * ScoreScale)

\* interval = int(fps / frame_rate) if fps > 0 else 1   (frame_rate > 0 here)
Interval(f, r) == IF f > 0 THEN f \div r ELSE 1

\* mutant of Selected: positions counted from 1
SelectedOffByOne(count, ival) == (count + 1) % ival = 0

\* if frame_count % interval == 0
Selected(count, ival) == count % ival = 0

\* mutant of NoValidFrames: the emptiness test is missing
NoValidFramesUnchecked(fs) == FALSE

\* `if not frames: raise ValueError(...)` at the end of extract_frames
NoValidFrames(fs) == fs = <<>>

\* mutant of HasNextFrame: the loop runs one index too far
HasNextFrameOffByOne(i, fs) == i <= Len(fs)

\* `for idx, frame in enumerate(frames)`: the loop has frames left
HasNextFrame(i, fs) == i < Len(fs)

\* `if not nsfw_scores: raise ValueError(...)` in analyze_video
NoScores(s) == s = <<>>

\* the name of the temporary image of the call for frame index i
TempImage(i) == <<"jpg", i>>
TempVideo == <<"mp4", 0>>
\* temp_image_path before its assignment on line 51
Unbound == <<"unbound", 0>>

\* the frame index the loop passes to classify_frame_with_api after i frames
NextFrame(i) == i + 1

\* which API failures end in `return 0.0`: a RequestException (lines 72-74) or a
\* response without the "nudity" key (lines 69-71).  response.json() raises a
\* RequestException only from requests 2.27 on.
ReturnsZero(f) ==
    IF f = "bad_json" THEN json_error_caught
    ELSE f \in {"network_error", "http_error", "no_nudity"}

\* the exception an API failure raises when it is not turned into 0.0
ApiException(f) == IF f = "nudity_no_raw" THEN "KeyError" ELSE "JSONDecodeError"

Return(s) == [kind |-> "return", exc |-> "none", score |-> s]
Raise(exc) == [kind |-> "raise", exc |-> exc, score |-> 0]

\* the finally block: os.path.exists(temp_image_path) raises UnboundLocalError when
\* the local was never assigned, and that replaces what the try block ended with
FinallyResult(path, p) == IF path = Unbound THEN Raise("UnboundLocalError") ELSE p

\* the finally block: os.remove(temp_image_path) when the local is bound
FilesAfterFinally(fs, path) == IF path = Unbound THEN fs ELSE fs \ {path}

\* nsfw_scores.append(score) when the call returned, nothing when it raised
ScoresAfter(s, p) == IF p.kind = "return" THEN Append(s, p.score) ELSE s

\* An exception leaving extract_frames or the classification loop: __main__
\* catches it and prints "Error: ...", the other callers let it propagate.
Raised(exc) ==
    IF caller = "main" THEN [kind |-> "error_printed", exc |-> exc, value |-> Rat(0, 1)]
    ELSE [kind |-> "raised", exc |-> exc, value |-> Rat(0, 1)]

\* The value the run ends with: frames for extract_frames (value unused), the
\* aggregate returned by analyze_video or printed by __main__.
Finished(v) ==
    IF caller = "main" THEN [kind |-> "aggregate_printed", exc |-> "none", value |-> v]
    ELSE [kind |-> "returned", exc |-> "none", value |-> v]

Running == [kind |-> "running", exc |-> "none", value |-> Rat(0, 1)]

NoPending == [kind |-> "none", exc |-> "none", score |-> 0]

----------------------------------------------------------------------------
Init ==
    /\ caller \in Callers
    /\ openable \in BOOLEAN
    /\ json_error_caught \in BOOLEAN
    /\ \E st \in Streams : N = st.N /\ fps = st.fps
    /\ frame_rate \in IF caller = "extract_frames" THEN 0..MaxRate
                      ELSE {DefaultFrameRate * FpsDen}
    /\ pc = IF caller = "extract_frames" THEN "extract" ELSE "start"
    /\ interval = 1
    /\ frame_count = 0
    /\ frames = <<>>
    /\ idx = 0
    /\ nsfw_scores = <<>>
    /\ temp_image_path = Unbound
    /\ pending = NoPending
    /\ files = {}
    /\ calls = <<>>
    /\ callLog = <<>>
    /\ ended = 0
    /\ sampling = "running"
    /\ outcome = Running

----------------------------------------------------------------------------
(* analyze_video and __main__ up to the call of extract_frames *)

\* analyze_video: write the upload to a NamedTemporaryFile(delete=False)
AnalyzeVideoBegin ==
    /\ pc = "start" /\ caller = "analyze_video"
    /\ files' = files \cup {TempVideo}
    /\ pc' = "extract"
    /\ UNCHANGED <<sampling, caller, openable, json_error_caught, N, fps, frame_rate, interval,
                   frame_count, frames, idx, nsfw_scores, temp_image_path, pending,
                   calls, callLog, ended, outcome>>

\* __main__: the path comes from input(); nothing is created
MainBegin ==
    /\ pc = "start" /\ caller = "main"
    /\ pc' = "extract"
    /\ UNCHANGED <<sampling, caller, openable, json_error_caught, N, fps, frame_rate, interval,
                   frame_count, frames, idx, nsfw_scores, temp_image_path, pending,
                   files, calls, callLog, ended, outcome>>

----------------------------------------------------------------------------
(* extract_frames *)

Abort(exc) ==
    /\ pc' = "done"
    /\ outcome' = Raised(exc)

\* cap.isOpened() is false
ExtractOpenFails ==
    /\ pc = "extract" /\ ~openable
    /\ Abort("IOError")
    /\ sampling' = "IOError"
    /\ UNCHANGED <<caller, openable, json_error_caught, N, fps, frame_rate, interval,
                   frame_count, frames, idx, nsfw_scores, temp_image_path, pending,
                   files, calls, callLog, ended>>

\* fps / frame_rate with frame_rate == 0 and fps > 0
ExtractIntervalFails ==
    /\ pc = "extract" /\ openable
    /\ fps > 0 /\ frame_rate = 0
    /\ Abort("ZeroDivisionError")
    /\ sampling' = "ZeroDivisionError"
    /\ UNCHANGED <<caller, openable, json_error_caught, N, fps, frame_rate, interval,
                   frame_count, frames, idx, nsfw_scores, temp_image_path, pending,
                   files, calls, callLog, ended>>

ExtractOpen ==
    /\ pc = "extract" /\ openable
    /\ ~(fps > 0 /\ frame_rate = 0)
    /\ interval' = Interval(fps, frame_rate)
    /\ frame_count' = 0
    /\ frames' = <<>>
    /\ pc' = "read"
    /\ UNCHANGED <<sampling, caller, openable, json_error_caught, N, fps, frame_rate, idx,
                   nsfw_scores, temp_image_path, pending, files, calls, callLog,
                   ended, outcome>>

\* one iteration of the while loop with ret == True
ReadFrame ==
    /\ pc = "read" /\ frame_count < N
    /\ interval # 0
    /\ frames' = IF Selected(frame_count, interval)
                 THEN Append(frames, frame_count) ELSE frames
    /\ frame_count' = frame_count + 1
    /\ UNCHANGED <<sampling, caller, openable, json_error_caught, N, fps, frame_rate, pc,
                   interval, idx, nsfw_scores, temp_image_path, pending, files,
                   calls, callLog, ended, outcome>>

\* frame_count % interval with interval == 0
ReadFrameZeroInterval ==
    /\ pc = "read" /\ frame_count < N
    /\ interval = 0
    /\ Abort("ZeroDivisionError")
    /\ sampling' = "ZeroDivisionError"
    /\ UNCHANGED <<caller, openable, json_error_caught, N, fps, frame_rate, interval,
                   frame_count, frames, idx, nsfw_scores, temp_image_path, pending,
                   files, calls, callLog, ended>>

\* ret == False: break, release, then raise or return frames.  analyze_video
\* repeats the emptiness test on the returned list (line 87).
ReadEnd ==
    /\ pc = "read" /\ frame_count = N
    /\ IF NoValidFrames(frames)
       THEN Abort("ValueError")
       ELSE IF caller = "extract_frames"
            THEN pc' = "done" /\ outcome' = Finished(Rat(0, 1))
            ELSE pc' = "loop" /\ outcome' = outcome
    /\ sampling' = IF NoValidFrames(frames) THEN "ValueError" ELSE "returned"
    /\ idx' = 0
    /\ nsfw_scores' = <<>>
    /\ UNCHANGED <<caller, openable, json_error_caught, N, fps, frame_rate, interval,
                   frame_count, frames, temp_image_path, pending, files, calls,
                   callLog, ended>>

----------------------------------------------------------------------------
(* The classification loop and classify_frame_with_api *)

\* the loop calls classify_frame_with_api(frame) for the next frame
LoopNext ==
    /\ pc = "loop" /\ HasNextFrame(idx, frames)
    /\ calls' = Append(calls, NextFrame(idx))
    /\ temp_image_path' = Unbound
    /\ pending' = NoPending
    /\ pc' = "tmpfile"
    /\ UNCHANGED <<sampling, caller, openable, json_error_caught, N, fps, frame_rate, interval,
                   frame_count, frames, idx, nsfw_scores, files, callLog, ended,
                   outcome>>

\* NamedTemporaryFile(delete=False, suffix=".jpg") creates the file
ClassifyCreateTemp ==
    /\ pc = "tmpfile"
    /\ files' = files \cup {TempImage(NextFrame(idx))}
    /\ pc' = "imwrite"
    /\ UNCHANGED <<sampling, caller, openable, json_error_caught, N, fps, frame_rate, interval,
                   frame_count, frames, idx, nsfw_scores, temp_image_path, pending,
                   calls, callLog, ended, outcome>>

\* NamedTemporaryFile raises OSError: no file, temp_image_path stays unbound
ClassifyCreateTempFails ==
    /\ pc = "tmpfile"
    /\ pending' = Raise("OSError")
    /\ callLog' = Append(callLog, "local_failure")
    /\ pc' = "finally"
    /\ UNCHANGED <<sampling, caller, openable, json_error_caught, N, fps, frame_rate, interval,
                   frame_count, frames, idx, nsfw_scores, temp_image_path, files,
                   calls, ended, outcome>>

\* cv2.imwrite succeeds, then temp_image_path = temp_image.name
ClassifyImwrite ==
    /\ pc = "imwrite"
    /\ temp_image_path' = TempImage(NextFrame(idx))
    /\ pc' = "post"
    /\ UNCHANGED <<sampling, caller, openable, json_error_caught, N, fps, frame_rate, interval,
                   frame_count, frames, idx, nsfw_scores, pending, files, calls,
                   callLog, ended, outcome>>

\* cv2.imwrite raises cv2.error before temp_image_path is assigned
ClassifyImwriteFails ==
    /\ pc = "imwrite"
    /\ pending' = Raise("cv2.error")
    /\ callLog' = Append(callLog, "local_failure")
    /\ pc' = "finally"
    /\ UNCHANGED <<sampling, caller, openable, json_error_caught, N, fps, frame_rate, interval,
                   frame_count, frames, idx, nsfw_scores, temp_image_path, files,
                   calls, ended, outcome>>

\* requests.post ... return result["nudity"]["raw"]
ClassifyScore ==
    /\ pc = "post"
    /\ \E s \in Scores : pending' = Return(s)
    /\ callLog' = Append(callLog, "ok")
    /\ pc' = "finally"
    /\ UNCHANGED <<sampling, caller, openable, json_error_caught, N, fps, frame_rate, interval,
                   frame_count, frames, idx, nsfw_scores, temp_image_path, files,
                   calls, ended, outcome>>

\* the request fails, or the response is not the expected one
ClassifyApiFailure ==
    /\ pc = "post"
    /\ \E f \in ApiFailures :
          pending' = IF ReturnsZero(f) THEN Return(0) ELSE Raise(ApiException(f))
    /\ callLog' = Append(callLog, "api_failure")
    /\ pc' = "finally"
    /\ UNCHANGED <<sampling, caller, openable, json_error_caught, N, fps, frame_rate, interval,
                   frame_count, frames, idx, nsfw_scores, temp_image_path, files,
                   calls, ended, outcome>>

\* the finally block, and the call's end in its caller: analyze_video appends the
\* score or catches the exception and goes on; __main__ has no try around the call
ClassifyFinally ==
    /\ pc = "finally"
    /\ files' = FilesAfterFinally(files, temp_image_path)
    /\ ended' = ended + 1
    /\ LET r == FinallyResult(temp_image_path, pending) IN
         IF r.kind = "raise" /\ caller = "main"
         THEN /\ Abort(r.exc)
              /\ UNCHANGED <<idx, nsfw_scores>>
         ELSE /\ nsfw_scores' = ScoresAfter(nsfw_scores, r)
              /\ idx' = idx + 1
              /\ pc' = "loop"
              /\ outcome' = outcome
    /\ UNCHANGED <<sampling, caller, openable, json_error_caught, N, fps, frame_rate, interval,
                   frame_count, frames, temp_image_path, pending, calls, callLog>>

\* after the last frame: analyze_video raises on an empty list (lines 99-100);
\* both callers take np.mean of the collected scores
LoopEnd ==
    /\ pc = "loop" /\ ~HasNextFrame(idx, frames)
    /\ IF caller = "analyze_video" /\ NoScores(nsfw_scores)
       THEN Abort("ValueError")
       ELSE pc' = "done" /\ outcome' = Finished(Mean(nsfw_scores))
    /\ UNCHANGED <<sampling, caller, openable, json_error_caught, N, fps, frame_rate, interval,
                   frame_count, frames, idx, nsfw_scores, temp_image_path, pending,
                   files, calls, callLog, ended>>

----------------------------------------------------------------------------
Next ==
    \/ AnalyzeVideoBegin
    \/ MainBegin
    \/ ExtractOpenFails
    \/ ExtractIntervalFails
    \/ ExtractOpen
    \/ ReadFrame
    \/ ReadFrameZeroInterval
    \/ ReadEnd
    \/ LoopNext
    \/ ClassifyCreateTemp
    \/ ClassifyCreateTempFails
    \/ ClassifyImwrite
    \/ ClassifyImwriteFails
    \/ ClassifyScore
    \/ ClassifyApiFailure
    \/ ClassifyFinally
    \/ LoopEnd

Spec == Init /\ [][Next]_vars

----------------------------------------------------------------------------
(* Vocabulary of the properties *)

CeilDiv(a, b) == (a + b - 1) \div b

\* the positions below n that are multiples of i, in increasing order
Multiples(i, n) == [k \in 1..CeilDiv(n, i) |-> (k - 1) * i]

\* sum of a score list by counting how often each value occurs
RECURSIVE CountSum(_, _)
CountSum(s, v) ==
    IF v = 0 THEN 0
    ELSE v * Cardinality({k \in 1..Len(s) : s[k] = v}) + CountSum(s, v - 1)

SamplingEnded == sampling # "running"
InCall == pc \in {"tmpfile", "imwrite", "post", "finally"}
HasAggregate == outcome.kind \in {"returned", "aggregate_printed"} /\ caller # "extract_frames"
ImagesOnDisk == {f \in files : f[1] = "jpg"}

\* the interval the specification defines, where it is well defined and >= 1
IntervalDefined == fps <= 0 \/ (frame_rate > 0 /\ fps >= frame_rate)
SpecInterval == IF fps <= 0 THEN 1 ELSE fps \div frame_rate

\* every call so far was a success or a failure of the API kind, exactly/at least one failed
ApiFailedCalls == {k \in 1..Len(callLog) : callLog[k] = "api_failure"}
OnlyApiOutcomes == \A k \in 1..Len(callLog) : callLog[k] \in {"ok", "api_failure"}

----------------------------------------------------------------------------
(* Properties *)

\* C1: in analyze_video, when exactly one classifier call fails (network error,
\* non-2xx status, malformed body, missing nudity.raw) and all others succeed, the
\* run returns an aggregate, and it is the sum of the successful scores divided by
\* the number n of sampled frames (0.0 counted for the failed frame).
C1_SubstitutedMean ==
    (/\ caller = "analyze_video" /\ pc = "done" /\ sampling = "returned"
     /\ Len(callLog) = Len(frames)
     /\ OnlyApiOutcomes
     /\ Cardinality(ApiFailedCalls) = 1)
    => /\ outcome.kind = "returned"
       /\ outcome.value = Rat(Sum(nsfw_scores), Len(frames) * ScoreScale)

\* C2: for a stream of N >= 1 decodable frames that opens, with fps = F > 0 and
\* frame_rate = R > 0, extract_frames returns exactly ceil(N / I) frames, where
\* I = floor(F/R), taken as 1 when floor(F/R) = 0.
C2_SampleCount ==
    (SamplingEnded /\ openable /\ N >= 1 /\ fps > 0 /\ frame_rate > 0)
    => /\ sampling = "returned"
       /\ Len(frames) = CeilDiv(N, IF fps \div frame_rate = 0 THEN 1
                                   ELSE fps \div frame_rate)

\* C3: on the __main__ path, a run in which classifier calls failed only in the
\* recoverable ways (network error, non-2xx, malformed body, missing field) ends
\* by printing an aggregate, not in the "Error:" branch.
C3_CliCompletes ==
    (/\ caller = "main" /\ pc = "done" /\ sampling = "returned"
     /\ OnlyApiOutcomes
     /\ ApiFailedCalls # {})
    => outcome.kind = "aggregate_printed"

\* C4: when the interval I is well defined and >= 1 (I = 1 for fps <= 0,
\* I = floor(fps/frame_rate) for fps >= frame_rate > 0), extract_frames on a stream
\* that opens and has a frame returns, and what it returns is exactly the
\* positions that are multiples of I, in increasing order without duplicates;
\* with fps <= 0 that is every frame, and 90 frames at 30 fps sampled at rate 1
\* give the positions 0, 30, 60.
C4_SampledPositions ==
    /\ (SamplingEnded /\ openable /\ N >= 1 /\ IntervalDefined) => sampling = "returned"
    /\ (sampling = "returned" /\ IntervalDefined)
       => /\ frames = Multiples(SpecInterval, N)
          /\ \A i, j \in 1..Len(frames) : i < j => frames[i] < frames[j]
          /\ \A i \in 1..Len(frames) : frames[i] \in 0..(N - 1) /\ frames[i] % SpecInterval = 0
          /\ \A q \in 0..(N - 1) :
                q % SpecInterval = 0 => \E i \in 1..Len(frames) : frames[i] = q
    /\ (sampling = "returned" /\ fps <= 0) => frames = [k \in 1..N |-> k - 1]
    /\ (sampling = "returned" /\ N = 90 /\ fps = 30 * FpsDen
          /\ frame_rate = DefaultFrameRate * FpsDen)
       => frames = <<0, 30, 60>>

C4_Witness ==
    /\ sampling = "returned" /\ pc = "done" /\ caller = "extract_frames"
    /\ N = 90 /\ fps = 30 * FpsDen /\ frame_rate = DefaultFrameRate * FpsDen
    /\ frames = <<0, 30, 60>>

\* C5: outside a call of classify_frame_with_api no per-frame temporary image is
\* on disk: whatever way a call ended, its image has been removed.
C5_TempImageRemoved == ~InCall => ImagesOnDisk = {}

\* C6: in analyze_video, once at least one frame was sampled the run collects one
\* score per sampled frame whatever the classifier calls did, and so returns an
\* aggregate; the "no scores" error is raised only when no frame was sampled.
C6_OneScorePerFrame ==
    (caller = "analyze_video" /\ pc = "done" /\ sampling = "returned")
    => /\ Len(nsfw_scores) = Len(frames)
       /\ outcome.kind = "returned"

\* C7: extract_frames never returns an empty sequence: a stream that cannot be
\* opened ends in IOError, a stream that opens and is read to its end with no
\* frame selected ends in ValueError (and has no decodable frame), and whenever
\* extract_frames returns it returns at least one frame; with no frame selected
\* it always ends in an exception.
C7_NeverEmpty ==
    /\ sampling = "returned" => Len(frames) >= 1
    /\ (SamplingEnded /\ ~openable) => sampling = "IOError"
    /\ (SamplingEnded /\ openable /\ N = 0 /\ (frame_rate > 0 \/ fps <= 0))
       => sampling = "ValueError"
    /\ (SamplingEnded /\ frames = <<>>)
       => sampling \in {"IOError", "ValueError", "ZeroDivisionError"}
    /\ (SamplingEnded /\ openable /\ frames = <<>> /\ sampling # "ZeroDivisionError")
       => sampling = "ValueError" /\ N = 0

C7_Witness ==
    /\ sampling = "ValueError" /\ openable /\ N = 0 /\ frames = <<>> /\ pc = "done"

\* C8: the aggregate returned by analyze_video or printed by __main__ over the
\* collected scores s1..sn (n >= 1, each in [0,1]) equals (s1+...+sn)/n, lies in
\* [0,1], and is the same for every permutation of the scores.
C8_ArithmeticMean ==
    HasAggregate =>
        LET s == nsfw_scores
            n == Len(nsfw_scores)
            a == outcome.value
        IN /\ n >= 1
           /\ \A k \in 1..n : s[k] \in Scores
           /\ a.den > 0
           /\ a.num * n * ScoreScale = CountSum(s, ScoreScale) * a.den
           /\ 0 <= a.num /\ a.num <= a.den
           /\ \A p \in Permutations(1..n) : Mean([k \in 1..n |-> s[p[k]]]) = a

C8_Witness ==
    /\ HasAggregate
    /\ nsfw_scores = <<0, ScoreScale, 1>>
    /\ outcome.value.num * 3 * ScoreScale = (ScoreScale + 1) * outcome.value.den

\* C9: when a run of analyze_video has ended, by returning an aggregate or by
\* raising, no temporary file it created is left on disk.
C9_NoFilesLeft == (caller = "analyze_video" /\ pc = "done") => files = {}

\* C10: the pipeline is one linear pass: classifier calls are issued only after
\* extract_frames has returned (never when sampling raised), one at a time, for the
\* sampled frames in increasing order, and an aggregate exists only after a call
\* for every sampled frame has been issued and has ended.
C10_LinearPass ==
    /\ calls # <<>> => sampling = "returned"
    /\ sampling \in {"IOError", "ValueError", "ZeroDivisionError"} => calls = <<>> /\ ended = 0
    /\ Len(calls) <= Len(frames)
    /\ \A k \in 1..Len(calls) : calls[k] = k
    /\ Len(calls) - ended = (IF InCall THEN 1 ELSE 0)
    /\ InCall => outcome = Running
    /\ HasAggregate => Len(calls) = Len(frames) /\ ended = Len(frames)

C10_Witness ==
    /\ HasAggregate /\ caller = "analyze_video"
    /\ Len(frames) = 3 /\ calls = <<1, 2, 3>> /\ ended = 3
    /\ \E k \in 1..3 : callLog[k] # "ok"

====
